---- MODULE Spec2Model ----
(***************************************************************************)
(* SzlWeightedSampleAdapter (src/emitters/szlweightedsampleadapter.h): the *)
(* adapter between the weighted reservoir sampler and the szl emitter, and *)
(* its RandomProxy.  Two adapters of one capacity share one RandomProxy.   *)
(* Strings are sequences of bytes; a double weight or tag is a small       *)
(* integer.  The sampler (SimpleWRS), the wire format (Encode, Merge,      *)
(* SplitEncodedStr) and the generators behind RandomBase are not defined   *)
(* in the header; they are modelled from the specification's description.  *)
(***************************************************************************)
EXTENDS Integers, Sequences, FiniteSets, TLC

\* ---------------------------------------------------------------- bounds
\* Adds stop once the two adapters have counted this many elements together,
\* and a Merge is taken only if it leaves TotElems() at most this.
MaxTot == 3
\* Number of generator objects that can ever be allocated.
MaxGen == 3

\* ---------------------------------------------------------------- inputs
Adapters == {1, 2}
\* The capacities (maxElems) the two adapters are constructed with.
Capacities == {1, 2}
Max(S) == CHOOSE x \in S : \A y \in S : y <= x
Proxies == {1, 2}
Gens == 1..MaxGen
NULL == 0

\* The strings passed to the adds: the empty string and one of two bytes.
Values == {<<>>, <<7, 8>>}
\* The typed weights (SzlValue) passed to AddWeightedElem.
Weights == {[t |-> "int", i |-> -1], [t |-> "int", i |-> 0],
            [t |-> "int", i |-> 1], [t |-> "float", f |-> 2]}
\* What one draw from a generator can return.
RandVals == {1, 2}

\* ------------------------------------------------------- pure operators
\* SzlOps::ToFloat: the weight as a double.
ToFloat(w) == IF w.t = "int" THEN w.i ELSE w.f

\* The tag the sampler gives a candidate of positive weight from one draw:
\* it grows with the weight and with the draw, and saturates at 2.
Key(weight, r) == IF weight * r >= 2 THEN 2 ELSE 1

\* The slot holding the smallest tag (the first one on a tie).
MinSlot(keys) ==
  CHOOSE i \in 1..Len(keys) :
    \A j \in 1..Len(keys) : keys[i] < keys[j] \/ (keys[i] = keys[j] /\ i <= j)

\* SetSample taking the difference the other way round.
SetSample_Reversed(value, dest) ==
  [delta_memory |-> Len(dest) - Len(value), dest |-> value]

\* SetSample reporting the new value's size, whatever the slot held.
SetSample_FullSize(value, dest) ==
  [delta_memory |-> Len(value), dest |-> value]

\* ElemTraits::SetSample: the memory delta and the slot's new content.
SetSample(value, dest) ==
  [delta_memory |-> Len(value) - Len(dest), dest |-> value]

\* SimpleWRS's admission decision: the slot the candidate goes to, 0 if none.
ConsiderIndex(s, weight, r) ==
  IF weight <= 0 THEN 0
  ELSE IF Len(s.samples) < s.max_sample_size THEN Len(s.samples) + 1
  ELSE IF s.max_sample_size = 0 THEN 0
  ELSE IF Key(weight, r) > s.keys[MinSlot(s.keys)] THEN MinSlot(s.keys)
  ELSE 0

\* SimpleWRS::ConsiderSample(weight, src): decides, and assigns an admitted
\* candidate to its slot through SetSample.  src.delta_memory stays as the
\* caller set it when the candidate is not admitted.
ConsiderSample(s, weight, src, r) ==
  LET i == ConsiderIndex(s, weight, r)
      fresh == i = Len(s.samples) + 1
      dest == IF fresh THEN <<>> ELSE s.samples[i]
      set == SetSample(src.value, dest)
  IN IF i = 0
     THEN [sampler |-> s, src |-> src, index |-> 0]
     ELSE [sampler |->
             [s EXCEPT !.samples = IF fresh THEN Append(@, set.dest)
                                   ELSE [@ EXCEPT ![i] = set.dest],
                       !.keys = IF fresh THEN Append(@, Key(weight, r))
                                ELSE [@ EXCEPT ![i] = Key(weight, r)]],
           src |-> [src EXCEPT !.delta_memory = set.delta_memory],
           index |-> i]

\* AddWeightedElemInternal starting src.delta_memory at the value's size
\* instead of 0.
AddWeightedElemInternal_DeltaPreset(ad, value, weight, r) ==
  LET src == [value |-> value, delta_memory |-> Len(value)]
      c == ConsiderSample(ad.sampler_, weight, src, r)
  IN [sampler_ |-> c.sampler, totElems_ |-> ad.totElems_ + 1,
      ret |-> c.src.delta_memory, index |-> c.index]

\* AddWeightedElemInternal without its ++totElems_.
AddWeightedElemInternal_Uncounted(ad, value, weight, r) ==
  LET src == [value |-> value, delta_memory |-> 0]
      c == ConsiderSample(ad.sampler_, weight, src, r)
  IN [sampler_ |-> c.sampler, totElems_ |-> ad.totElems_,
      ret |-> c.src.delta_memory, index |-> c.index]

\* AddWeightedElemInternal counting only the candidates the sampler admits.
AddWeightedElemInternal_CountAdmitted(ad, value, weight, r) ==
  LET src == [value |-> value, delta_memory |-> 0]
      c == ConsiderSample(ad.sampler_, weight, src, r)
  IN [sampler_ |-> c.sampler,
      totElems_ |-> ad.totElems_ + (IF c.index > 0 THEN 1 ELSE 0),
      ret |-> c.src.delta_memory, index |-> c.index]

\* AddWeightedElemInternal on the adapter ad = [sampler_, totElems_].
AddWeightedElemInternal(ad, value, weight, r) ==
  LET src == [value |-> value, delta_memory |-> 0]
      c == ConsiderSample(ad.sampler_, weight, src, r)
  IN [sampler_ |-> c.sampler, totElems_ |-> ad.totElems_ + 1,
      ret |-> c.src.delta_memory, index |-> c.index]

\* ------------------------------------------------------------ accessors
nElems(s) == Len(s.samples)
maxElems(s) == s.max_sample_size
Element(s, i) == s.samples[i]
ElementTag(s, i) == s.keys[i]
\* IsValid() of an adapter with sampler s and totElems_ t.
IsValid(s, t) == nElems(s) <= maxElems(s) /\ nElems(s) <= t

\* The bytes of the first k values of els together.
RECURSIVE Bytes(_, _)
Bytes(els, k) == IF k = 0 THEN 0 ELSE Bytes(els, k - 1) + Len(els[k])

\* ExtraMemory(): the bytes the retained values hold.
ExtraMemory(s) == Bytes(s.samples, nElems(s))

\* ------------------------------------------------------------ wire format
\* One value, length-prefixed.
PutBytes(v) == <<Len(v)>> \o v

RECURSIVE PutAll(_)
PutAll(els) == IF els = <<>> THEN <<>> ELSE PutBytes(Head(els)) \o PutAll(Tail(els))

\* Encode writing the number of retained values where the total belongs.
Encode_CountAsTotal(s, t) == <<nElems(s)>> \o PutAll(s.samples) \o <<nElems(s)>>

\* Encode(): the number of retained values, each value length-prefixed in
\* slot order, then the total count.
Encode(s, t) == <<nElems(s)>> \o PutAll(s.samples) \o <<t>>

\* Reads n length-prefixed values from position pos on; stops at the first
\* one that runs past the end of the bytes.
RECURSIVE GetAll(_, _, _, _)
GetAll(bytes, pos, n, acc) ==
  IF n = 0 THEN [ok |-> TRUE, elems |-> acc, pos |-> pos]
  ELSE IF pos > Len(bytes) \/ pos + bytes[pos] > Len(bytes)
    THEN [ok |-> FALSE, elems |-> acc, pos |-> pos]
  ELSE GetAll(bytes, pos + 1 + bytes[pos], n - 1,
              Append(acc, SubSeq(bytes, pos + 1, pos + bytes[pos])))

\* The decoder without its check that the total is the last byte.
Decode_TrailingBytes(bytes, max_elems) ==
  IF bytes = <<>> \/ bytes[1] > max_elems
  THEN [ok |-> FALSE, elems |-> <<>>, total |-> 0]
  ELSE LET g == GetAll(bytes, 2, bytes[1], <<>>)
       IN IF ~g.ok \/ g.pos > Len(bytes)
          THEN [ok |-> FALSE, elems |-> g.elems, total |-> 0]
          ELSE IF bytes[g.pos] < bytes[1]
          THEN [ok |-> FALSE, elems |-> g.elems, total |-> 0]
          ELSE [ok |-> TRUE, elems |-> g.elems, total |-> bytes[g.pos]]

\* The decoder Merge and SplitEncodedStr share: the values and the total, or
\* a failure with the values read before it.
Decode(bytes, max_elems) ==
  IF bytes = <<>> \/ bytes[1] > max_elems
  THEN [ok |-> FALSE, elems |-> <<>>, total |-> 0]
  ELSE LET g == GetAll(bytes, 2, bytes[1], <<>>)
       IN IF ~g.ok \/ g.pos # Len(bytes)
          THEN [ok |-> FALSE, elems |-> g.elems, total |-> 0]
          ELSE IF bytes[g.pos] < bytes[1]
          THEN [ok |-> FALSE, elems |-> g.elems, total |-> 0]
          ELSE [ok |-> TRUE, elems |-> g.elems, total |-> bytes[g.pos]]

\* SplitEncodedStr(encoded, max_elems, output, total_elems).
SplitEncodedStr(bytes, max_elems) ==
  LET d == Decode(bytes, max_elems)
  IN IF d.ok THEN [ret |-> TRUE, output |-> d.elems, total_elems |-> d.total]
     ELSE [ret |-> FALSE, output |-> <<>>, total_elems |-> 0]

\* The fold offering every decoded value with weight 0 instead of 1.
RECURSIVE FoldSamples_Weightless(_, _, _, _)
FoldSamples_Weightless(s, elems, rs, k) ==
  IF k = 0 THEN s
  ELSE ConsiderSample(FoldSamples_Weightless(s, elems, rs, k - 1), 0,
                      [value |-> elems[k], delta_memory |-> 0], rs[k]).sampler

\* Merge folds the first k decoded values through the sampler with weight 1,
\* one draw each (rs[i] is the draw for the i-th value).
RECURSIVE FoldSamples(_, _, _, _)
FoldSamples(s, elems, rs, k) ==
  IF k = 0 THEN s
  ELSE ConsiderSample(FoldSamples(s, elems, rs, k - 1), 1,
                      [value |-> elems[k], delta_memory |-> 0], rs[k]).sampler

\* Merge counting every folded value as a new observation as well.
MergeOk_Recounted(ad, d, rs) ==
  [sampler_ |-> FoldSamples(ad.sampler_, d.elems, rs, Len(d.elems)),
   totElems_ |-> ad.totElems_ + d.total + Len(d.elems)]

\* Merge(encoded) on the adapter ad, when the bytes decode: every value is
\* folded in and the decoded total is added to totElems_.  Bytes that do not
\* decode are rejected before anything is folded in.
MergeOk(ad, d, rs) ==
  [sampler_ |-> FoldSamples(ad.sampler_, d.elems, rs, Len(d.elems)),
   totElems_ |-> ad.totElems_ + d.total]

\* What the wire format is, said without the decoder: a count n of at most
\* max_elems, then n length-prefixed values, then as the last byte a total
\* that is no less than n.  Boundary(bytes, i) is where the i-th value's
\* length byte stands (for i = n + 1, where the total stands), and
\* Len(bytes) + 1 once a value would run past the end.
RECURSIVE Boundary(_, _)
Boundary(bytes, i) ==
  IF i = 1 THEN 2
  ELSE LET p == Boundary(bytes, i - 1)
       IN IF p >= Len(bytes) THEN Len(bytes) + 1 ELSE p + 1 + bytes[p]

ValidEncoding(bytes, max_elems) ==
  /\ Len(bytes) >= 2
  /\ bytes[1] <= max_elems
  /\ Boundary(bytes, bytes[1] + 1) = Len(bytes)
  /\ bytes[Len(bytes)] >= bytes[1]

\* The malformed inputs tried: the encoding cut to nothing and cut by its
\* last byte, with one trailing byte, and with its first byte (the count)
\* raised by one.
Truncations(bytes) == {SubSeq(bytes, 1, n) : n \in {0, Len(bytes) - 1}}
Corruptions(bytes) ==
  Truncations(bytes) \cup {bytes \o <<0>>, [bytes EXCEPT ![1] = @ + 1]}

\* ---------------------------------------------------------------- state
VARIABLES
  sampler_,   \* adapter -> its SimpleWRS: max_sample_size, samples, keys
  totElems_,  \* adapter -> total elements ever added
  random,     \* adapter -> the RandomProxy its sampler was constructed with
  proxies,    \* the RandomProxy objects that exist
  real_,      \* proxy -> the generator it forwards to
  allocated,  \* the generators ever constructed
  deleted,    \* generator -> how many times it was deleted (2: more than once)
  nAdds,      \* adapter -> add calls since construction or the last Clear,
              \*            counted until a Merge
  hist,       \* adapter -> "adds", or "merged" once a Merge has succeeded
  deltaSum,   \* adapter -> what the caller has summed of the memory deltas
              \*            its adds returned since construction or the last
              \*            Clear, kept until a Merge
  last,       \* the last call: what it was given and what it returned
  crashed,    \* the process aborted
  inflight,   \* adapter -> the value of the add that is inside the proxy's
              \*            forwarding method and the real_ it read there
              \*            (real = NULL: no add is in flight)
  pending,    \* proxy -> NULL, or the argument of the reset that has run
              \*          its delete real_ and not yet its real_ = real
  raced       \* a reset and an add through the same proxy have overlapped

vars == <<sampler_, totElems_, random, proxies, real_, allocated, deleted,
          nAdds, hist, deltaSum, last, crashed, inflight, pending, raced>>

adapterVars == <<sampler_, totElems_, nAdds, hist, deltaSum>>
proxyVars == <<proxies, real_, allocated, deleted>>
raceVars == <<inflight, pending, raced>>

\* The adapter a as AddWeightedElemInternal and Merge see it.
Ad(a) == [sampler_ |-> sampler_[a], totElems_ |-> totElems_[a]]

\* What the adapters have counted together, which MaxTot caps.
RECURSIVE SumTot(_)
SumTot(S) == IF S = {} THEN 0
             ELSE LET a == CHOOSE x \in S : TRUE
                  IN totElems_[a] + SumTot(S \ {a})
Observed == SumTot(Adapters)

\* The generator a call through proxy p is forwarded to.
Target(p) == real_[p]
Live(g) == g \in allocated /\ deleted[g] = 0
\* The next generator a caller can construct, if the bound leaves one.
FreshGens ==
  IF \E g \in Gens : g \notin allocated
  THEN {CHOOSE g \in Gens : g \notin allocated /\
                            \A h \in Gens : h \notin allocated => g <= h}
  ELSE {}

\* The constructors: both adapters get capacity c and proxy 1, which owns
\* generator 1.
Init ==
  /\ \E c \in Capacities :
       sampler_ = [a \in Adapters |->
                     [max_sample_size |-> c, samples |-> <<>>, keys |-> <<>>]]
  /\ totElems_ = [a \in Adapters |-> 0]
  /\ random = [a \in Adapters |-> 1]
  /\ proxies = {1}
  /\ real_ = [p \in Proxies |-> IF p = 1 THEN 1 ELSE NULL]
  /\ allocated = {1}
  /\ deleted = [g \in Gens |-> 0]
  /\ nAdds = [a \in Adapters |-> 0]
  /\ hist = [a \in Adapters |-> "adds"]
  /\ deltaSum = [a \in Adapters |-> 0]
  /\ last = [op |-> "new"]
  /\ crashed = FALSE
  /\ inflight = [a \in Adapters |-> [value |-> <<>>, real |-> NULL]]
  /\ pending = [p \in Proxies |-> NULL]
  /\ raced = FALSE

\* A call that uses a deleted generator may abort the process.
Crash(opname) ==
  /\ crashed' = TRUE
  /\ last' = [op |-> "crash", in |-> opname]
  /\ UNCHANGED <<adapterVars, random, raceVars, proxyVars>>

\* ---------------------------------------------------------------- adds
\* One add of value with the double weight; the sampler draws once, through
\* the adapter's proxy, for a candidate of positive weight.
AddStep(opname, a, value, weight) ==
  LET g == Target(random[a])
      draws == weight > 0
  IN /\ ~crashed
     /\ Observed < MaxTot
     /\ \/ \E r \in IF draws THEN RandVals ELSE {1} :
             LET res == AddWeightedElemInternal(Ad(a), value, weight, r)
             IN /\ sampler_' = [sampler_ EXCEPT ![a] = res.sampler_]
                /\ totElems_' = [totElems_ EXCEPT ![a] = res.totElems_]
                /\ nAdds' = [nAdds EXCEPT ![a] = IF hist[a] = "adds" THEN @ + 1 ELSE @]
                /\ deltaSum' = [deltaSum EXCEPT ![a] =
                                  IF hist[a] = "adds" THEN @ + res.ret ELSE @]
                /\ last' = [op |-> opname, a |-> a, value |-> value,
                            weight |-> weight, r |-> r, ret |-> res.ret,
                            index |-> res.index,
                            drawn |-> IF draws THEN {g} ELSE {}]
                /\ UNCHANGED <<hist, random, raceVars, proxyVars, crashed>>
        \/ draws /\ ~Live(g) /\ Crash(opname)

\* AddElem passing the weight 2.0 instead of 1.0.
AddElem_DoubleWeight(a, value) == AddStep("AddElem", a, value, 2)

\* AddElem passing the weight 0.0 instead of 1.0.
AddElem_ZeroWeight(a, value) == AddStep("AddElem", a, value, 0)

\* int AddElem(const string& value)
AddElem(a, value) == AddStep("AddElem", a, value, 1)

\* int AddWeightedElem(const string& value, const SzlValue& weight)
AddWeightedElem(a, value, w) == AddStep("AddWeightedElem", a, value, ToFloat(w))

\* Clear() without its totElems_ = 0.
ClearAd_KeepTotal(ad) ==
  [sampler_ |-> [ad.sampler_ EXCEPT !.samples = <<>>, !.keys = <<>>],
   totElems_ |-> ad.totElems_]

\* Clear() on the adapter ad = [sampler_, totElems_]: sampler_.clear() and
\* totElems_ = 0.
ClearAd(ad) ==
  [sampler_ |-> [ad.sampler_ EXCEPT !.samples = <<>>, !.keys = <<>>],
   totElems_ |-> 0]

\* void Clear()
Clear(a) ==
  /\ ~crashed
  /\ sampler_' = [sampler_ EXCEPT ![a] = ClearAd(Ad(a)).sampler_]
  /\ totElems_' = [totElems_ EXCEPT ![a] = ClearAd(Ad(a)).totElems_]
  /\ nAdds' = [nAdds EXCEPT ![a] = 0]
  /\ deltaSum' = [deltaSum EXCEPT ![a] = 0]
  /\ hist' = [hist EXCEPT ![a] = "adds"]
  /\ last' = [op |-> "Clear", a |-> a, dirty |-> totElems_[a] > 0]
  /\ UNCHANGED <<random, raceVars, proxyVars, crashed>>

\* ------------------------------------------------- read-only operations
\* A const member function called on adapter a that returns ret.
ReadOnly(opname, a, ret) ==
  /\ ~crashed
  /\ last' = [op |-> opname, a |-> a, ret |-> ret, drawn |-> {}]
  /\ UNCHANGED <<adapterVars, random, raceVars, proxyVars, crashed>>

\* int nElems() const
nElemsCall(a) == ReadOnly("nElems", a, nElems(sampler_[a]))

\* int maxElems() const
maxElemsCall(a) == ReadOnly("maxElems", a, maxElems(sampler_[a]))

\* TotElems() counting its own call.
TotElemsCall_Counting(a) ==
  /\ ~crashed
  /\ totElems_[a] < MaxTot
  /\ totElems_' = [totElems_ EXCEPT ![a] = @ + 1]
  /\ last' = [op |-> "TotElems", a |-> a, ret |-> totElems_'[a], drawn |-> {}]
  /\ UNCHANGED <<sampler_, nAdds, hist, deltaSum, random, raceVars, proxyVars,
                 crashed>>

\* int64 TotElems() const
TotElemsCall(a) == ReadOnly("TotElems", a, totElems_[a])

\* const string& Element(int i) const, REQUIRES 0 <= i < nElems()
\* (i here counts from 1).
ElementCall(a, i) ==
  /\ i \in 1..nElems(sampler_[a])
  /\ ReadOnly("Element", a, Element(sampler_[a], i))

\* int ExtraMemory() const
ExtraMemoryCall(a) == ReadOnly("ExtraMemory", a, ExtraMemory(sampler_[a]))

\* bool IsValid() const
IsValidCall(a) == ReadOnly("IsValid", a, IsValid(sampler_[a], totElems_[a]))

\* void Encode(string* encoded) const
EncodeCall(a) == ReadOnly("Encode", a, Encode(sampler_[a], totElems_[a]))

\* ------------------------------------------------------- merge and split
\* bool Merge(const string& encoded).  who names the adapter whose Encode
\* wrote the bytes, when they are given as written: [b |-> b, exact |-> TRUE];
\* for a damaged copy it is [exact |-> FALSE].
MergeStep(a, bytes, who) ==
  LET g == Target(random[a])
      d == Decode(bytes, maxElems(sampler_[a]))
      n == Len(d.elems)
      valid == ValidEncoding(bytes, maxElems(sampler_[a]))
  IN /\ ~crashed
     /\ \/ /\ d.ok
           /\ totElems_[a] + d.total <= MaxTot
           /\ \E rs \in [1..n -> RandVals] :
                LET res == MergeOk(Ad(a), d, rs)
                IN /\ sampler_' = [sampler_ EXCEPT ![a] = res.sampler_]
                   /\ totElems_' = [totElems_ EXCEPT ![a] = res.totElems_]
           /\ hist' = [hist EXCEPT ![a] = "merged"]
           /\ nAdds' = [nAdds EXCEPT ![a] = 0]
           /\ deltaSum' = [deltaSum EXCEPT ![a] = 0]
           /\ last' = [op |-> "Merge", a |-> a, valid |-> valid, ret |-> TRUE,
                       drawn |-> IF n > 0 THEN {g} ELSE {}] @@ who
           /\ UNCHANGED <<random, raceVars, proxyVars, crashed>>
        \/ /\ ~d.ok
           /\ last' = [op |-> "Merge", a |-> a, valid |-> valid, ret |-> FALSE,
                       drawn |-> {}] @@ who
           /\ UNCHANGED <<adapterVars, random, raceVars, proxyVars, crashed>>
        \/ d.ok /\ n > 0 /\ ~Live(g) /\ Crash("Merge")

\* a.Merge(encoded) with encoded written by b.Encode(&encoded)
Merge(a, b) ==
  MergeStep(a, Encode(sampler_[b], totElems_[b]), [b |-> b, exact |-> TRUE])

\* a.Merge(encoded) with encoded a damaged copy of what another adapter's
\* Encode wrote
MergeDamaged(a, b) ==
  /\ a # b
  /\ \E bytes \in Corruptions(Encode(sampler_[b], totElems_[b])) :
       MergeStep(a, bytes, [exact |-> FALSE])

\* static SplitEncodedStr(encoded, max_elems, &output, &total_elems) on
\* what b.Encode wrote
Split(b) ==
  /\ ~crashed
  /\ LET r == SplitEncodedStr(Encode(sampler_[b], totElems_[b]),
                              maxElems(sampler_[b]))
     IN last' = [op |-> "Split", b |-> b, exact |-> TRUE,
                 valid |-> ValidEncoding(Encode(sampler_[b], totElems_[b]),
                                         maxElems(sampler_[b])),
                 ret |-> r.ret, output |-> r.output,
                 total_elems |-> r.total_elems, drawn |-> {}]
  /\ UNCHANGED <<adapterVars, random, raceVars, proxyVars, crashed>>

\* static SplitEncodedStr on a damaged copy of what b.Encode wrote, or on
\* what it wrote but with a max_elems other than b's
SplitDamaged(b, max_elems) ==
  /\ ~crashed
  /\ LET enc == Encode(sampler_[b], totElems_[b])
     IN \E bytes \in IF max_elems = maxElems(sampler_[b])
                     THEN Corruptions(enc) ELSE {enc} :
          LET r == SplitEncodedStr(bytes, max_elems)
          IN last' = [op |-> "Split", exact |-> FALSE,
                      valid |-> ValidEncoding(bytes, max_elems),
                      ret |-> r.ret, output |-> r.output,
                      total_elems |-> r.total_elems, drawn |-> {}]
  /\ UNCHANGED <<adapterVars, random, raceVars, proxyVars, crashed>>

\* ------------------------------------------------------------ RandomProxy
\* Rand8 .. UnbiasedUniform64 called on the proxy: forwarded to real_.
Rand(p) ==
  /\ ~crashed
  /\ p \in proxies
  /\ \/ /\ \E r \in RandVals :
             last' = [op |-> "Rand", p |-> p, ret |-> r, drawn |-> {Target(p)}]
        /\ UNCHANGED <<adapterVars, random, raceVars, proxyVars, crashed>>
     \/ ~Live(Target(p)) /\ Crash("Rand")

\* reset deleting the held generator but keeping the pointer to it.
reset_NoAssign(p, g) ==
  /\ ~crashed
  /\ p \in proxies
  /\ g \in FreshGens \cup {real_[p]}
  /\ deleted' = [deleted EXCEPT ![real_[p]] = IF @ < 2 THEN @ + 1 ELSE @]
  /\ allocated' = allocated \cup {g}
  /\ last' = [op |-> "reset", p |-> p, real |-> g, old |-> real_[p]]
  /\ UNCHANGED <<adapterVars, random, raceVars, proxies, real_, crashed>>

\* void reset(RandomBase* real): delete real_; real_ = real.  The caller
\* passes a generator it has just constructed, or the one the proxy holds.
reset(p, g) ==
  /\ ~crashed
  /\ p \in proxies
  /\ g \in FreshGens \cup {real_[p]}
  /\ \/ /\ deleted' = [deleted EXCEPT ![real_[p]] = IF @ < 2 THEN @ + 1 ELSE @]
        /\ real_' = [real_ EXCEPT ![p] = g]
        /\ allocated' = allocated \cup {g}
        /\ last' = [op |-> "reset", p |-> p, real |-> g, old |-> real_[p]]
        /\ UNCHANGED <<adapterVars, random, raceVars, proxies, crashed>>
     \* deleting a generator a second time
     \/ ~Live(real_[p]) /\ Crash("reset")

\* Clone wrapping the held generator itself instead of its copy.
Clone_Shared(p) ==
  /\ ~crashed
  /\ p \in proxies
  /\ \/ /\ last' = [op |-> "Clone", p |-> p, real_copy |-> NULL, ret |-> NULL]
        /\ UNCHANGED <<adapterVars, random, raceVars, proxyVars, crashed>>
     \/ \E g \in FreshGens : \E q \in Proxies \ proxies :
          /\ allocated' = allocated \cup {g}
          /\ proxies' = proxies \cup {q}
          /\ real_' = [real_ EXCEPT ![q] = real_[p]]
          /\ last' = [op |-> "Clone", p |-> p, real_copy |-> g, ret |-> q]
          /\ UNCHANGED <<adapterVars, random, raceVars, deleted, crashed>>

\* RandomProxy* Clone() const: NULL when real_->Clone() returns NULL, else
\* a new proxy that owns the copy.
Clone(p) ==
  /\ ~crashed
  /\ p \in proxies
  /\ \/ /\ last' = [op |-> "Clone", p |-> p, real_copy |-> NULL, ret |-> NULL]
        /\ UNCHANGED <<adapterVars, random, raceVars, proxyVars, crashed>>
     \/ \E g \in FreshGens : \E q \in Proxies \ proxies :
          /\ allocated' = allocated \cup {g}
          /\ proxies' = proxies \cup {q}
          /\ real_' = [real_ EXCEPT ![q] = g]
          /\ last' = [op |-> "Clone", p |-> p, real_copy |-> g, ret |-> q]
          /\ UNCHANGED <<adapterVars, random, raceVars, deleted, crashed>>
     \/ ~Live(Target(p)) /\ Crash("Clone")

\* ------------------------------------------- calls that are not serialized
\* An add through proxy p is in flight.
AddInFlight(p) == \E a \in Adapters : random[a] = p /\ inflight[a].real # NULL

\* AddElem(value) up to the load of real_ in the proxy's forwarding method:
\* ++totElems_, then ConsiderSample asks the proxy for a draw.
AddElemCall(a, value) ==
  /\ ~crashed
  /\ inflight[a].real = NULL
  /\ Observed < MaxTot
  /\ totElems_' = [totElems_ EXCEPT ![a] = @ + 1]
  /\ nAdds' = [nAdds EXCEPT ![a] = IF hist[a] = "adds" THEN @ + 1 ELSE @]
  /\ inflight' = [inflight EXCEPT ![a] =
                    [value |-> value, real |-> Target(random[a])]]
  /\ raced' = (raced \/ pending[random[a]] # NULL)
  /\ last' = [op |-> "call", a |-> a]
  /\ UNCHANGED <<sampler_, hist, deltaSum, random, proxyVars, pending, crashed>>

\* The rest of that AddElem: the call through the loaded real_, the
\* sampler's decision on the draw, and the return.
AddElemDraw(a) ==
  /\ ~crashed
  /\ inflight[a].real # NULL
  /\ LET g == inflight[a].real
          src == [value |-> inflight[a].value, delta_memory |-> 0]
     IN \/ \E r \in RandVals :
             LET c == ConsiderSample(sampler_[a], 1, src, r)
             IN /\ sampler_' = [sampler_ EXCEPT ![a] = c.sampler]
                /\ last' = [op |-> "AddElem", a |-> a, value |-> src.value,
                            weight |-> 1, r |-> r,
                            ret |-> c.src.delta_memory, index |-> c.index,
                            drawn |-> {g}]
                /\ deltaSum' = [deltaSum EXCEPT ![a] =
                                  IF hist[a] = "adds"
                                  THEN @ + c.src.delta_memory ELSE @]
                /\ inflight' = [inflight EXCEPT ![a] =
                                  [value |-> <<>>, real |-> NULL]]
                /\ raced' = (raced \/ pending[random[a]] # NULL)
                /\ UNCHANGED <<totElems_, nAdds, hist, random, proxyVars,
                               pending, crashed>>
        \/ ~Live(g) /\ Crash("AddElem")

\* reset(real), its first statement: delete real_.
resetDelete(p, g) ==
  /\ ~crashed
  /\ p \in proxies
  /\ pending[p] = NULL
  /\ g \in FreshGens \cup {real_[p]}
  /\ \/ /\ deleted' = [deleted EXCEPT ![real_[p]] = IF @ < 2 THEN @ + 1 ELSE @]
        /\ allocated' = allocated \cup {g}
        /\ pending' = [pending EXCEPT ![p] = g]
        /\ raced' = (raced \/ AddInFlight(p))
        /\ last' = [op |-> "delete", p |-> p, real |-> g, old |-> real_[p]]
        /\ UNCHANGED <<adapterVars, random, proxies, real_, inflight, crashed>>
     \/ ~Live(real_[p]) /\ Crash("reset")

\* reset(real), its second statement: real_ = real.
resetAssign(p) ==
  /\ ~crashed
  /\ p \in proxies
  /\ pending[p] # NULL
  /\ real_' = [real_ EXCEPT ![p] = pending[p]]
  /\ pending' = [pending EXCEPT ![p] = NULL]
  /\ raced' = (raced \/ AddInFlight(p))
  /\ last' = [op |-> "reset", p |-> p, real |-> pending[p], old |-> real_[p]]
  /\ UNCHANGED <<adapterVars, random, proxies, allocated, deleted, inflight,
                 crashed>>

\* ------------------------------------------------------- specifications
\* The adapters: adds, Clear, Merge and SplitEncodedStr on two adapters that
\* draw through one proxy whose generator is never replaced.
Next ==
  \/ \E a \in Adapters, v \in Values : AddElem(a, v)
  \/ \E a \in Adapters, v \in Values, w \in Weights : AddWeightedElem(a, v, w)
  \/ \E a \in Adapters : Clear(a)
  \/ \E a, b \in Adapters : Merge(a, b)
  \/ \E a, b \in Adapters : MergeDamaged(a, b)
  \/ \E b \in Adapters : Split(b)
  \/ \E b \in Adapters, m \in Capacities : SplitDamaged(b, m)

Spec == Init /\ [][Next]_vars

\* The proxy: the two adapters add one value while the proxy they share is
\* drawn from, reset and cloned.
NextProxy ==
  \/ \E a \in Adapters : AddElem(a, <<7, 8>>)
  \/ \E p \in Proxies : Rand(p)
  \/ \E p \in Proxies, g \in Gens : reset(p, g)
  \/ \E p \in Proxies : Clone(p)

SpecProxy == Init /\ [][NextProxy]_vars

\* Unweighted use: AddElem (of one value) is the only add, with Clear and
\* Merge of encodings, and the read-only operations called in between.
NextReads ==
  \/ \E a \in Adapters : AddElem(a, <<7, 8>>)
  \/ \E a \in Adapters : Clear(a)
  \/ \E a, b \in Adapters : Merge(a, b)
  \/ \E b \in Adapters : Split(b)
  \/ \E a \in Adapters : nElemsCall(a)
  \/ \E a \in Adapters : maxElemsCall(a)
  \/ \E a \in Adapters : TotElemsCall(a)
  \/ \E a \in Adapters, i \in 1..Max(Capacities) : ElementCall(a, i)
  \/ \E a \in Adapters : ExtraMemoryCall(a)
  \/ \E a \in Adapters : IsValidCall(a)
  \/ \E a \in Adapters : EncodeCall(a)

SpecReads == Init /\ [][NextReads]_vars

\* Unsynchronized callers: adds by the two adapters and resets of the proxy
\* they share, each in its two steps, in any interleaving.
NextRace ==
  \/ \E a \in Adapters : AddElemCall(a, <<7, 8>>)
  \/ \E a \in Adapters : AddElemDraw(a)
  \/ \E p \in Proxies, g \in Gens : resetDelete(p, g)
  \/ \E p \in Proxies : resetAssign(p)

SpecRace == Init /\ [][NextRace]_vars

\* ----------------------------------------------------------------- claims
AddOps == {"AddElem", "AddWeightedElem"}

\* Two sequences of strings hold the same values the same number of times.
SameBag(xs, ys) ==
  /\ Len(xs) = Len(ys)
  /\ \A v \in {xs[i] : i \in 1..Len(xs)} \cup {ys[i] : i \in 1..Len(ys)} :
       Cardinality({i \in 1..Len(xs) : xs[i] = v}) =
       Cardinality({i \in 1..Len(ys) : ys[i] = v})

\* C1: after any sequence of adds (of any weight), Clear and Merge of
\* encodings written by Encode, every adapter has nElems() <= maxElems() and
\* nElems() <= TotElems(), that is, IsValid() returns true.
C1_IsValid == \A a \in Adapters : IsValid(sampler_[a], totElems_[a])

\* A full adapter that has merged and has counted more than it retains.
C1_Witness ==
  \E a \in Adapters :
    /\ hist[a] = "merged"
    /\ nElems(sampler_[a]) = maxElems(sampler_[a])
    /\ totElems_[a] > nElems(sampler_[a])

\* C2: every add raises TotElems() by exactly 1, whatever the weight and
\* whether or not the value is admitted; so with no Merge since construction
\* or the last Clear, TotElems() is the number of adds since then.
C2_AddCounts ==
  [][/\ last'.op \in AddOps =>
          totElems_'[last'.a] = totElems_[last'.a] + 1
     /\ \A a \in Adapters : hist'[a] = "adds" => totElems_'[a] = nAdds'[a]]_vars

\* A third add that the sampler did not admit.
C2_Witness ==
  /\ last.op = "AddWeightedElem"
  /\ last.index = 0
  /\ hist[last.a] = "adds"
  /\ nAdds[last.a] = 3

\* C3 as stated: an add that evicts a retained value of length L_old for a
\* value of length L_new returns L_new - L_old, and every other add (value
\* not admitted, or admitted into an empty slot) returns 0.
C3_DeltaAsStated ==
  [][last'.op \in AddOps =>
       LET a == last'.a
           i == last'.index
       IN IF i >= 1 /\ i <= nElems(sampler_[a])
          THEN last'.ret = Len(sampler_'[a].samples[i]) - Len(sampler_[a].samples[i])
          ELSE last'.ret = 0]_vars

\* C3 (amended): an add returns the admitted value's length minus the length
\* of what its slot held: L_new - L_old when it evicts a retained value,
\* L_new when it fills an empty slot; an add that admits nothing returns 0
\* and leaves the retained values as they were.
C3_Delta ==
  [][last'.op \in AddOps =>
       LET a == last'.a
           i == last'.index
       IN IF i = 0
          THEN last'.ret = 0 /\ sampler_'[a] = sampler_[a]
          ELSE IF i <= nElems(sampler_[a])
          THEN last'.ret = Len(sampler_'[a].samples[i]) - Len(sampler_[a].samples[i])
          ELSE /\ i = nElems(sampler_[a]) + 1
               /\ last'.ret = Len(sampler_'[a].samples[i])]_vars

\* An add that evicted the two-byte value for the empty one.
C3_Witness ==
  /\ last.op \in AddOps
  /\ last.index > 0
  /\ last.ret = -2
  /\ sampler_[last.a].samples[last.index] = <<>>

\* C4: SplitEncodedStr(A.Encode(), A.maxElems()) succeeds and returns A's
\* retained values, one string each, and A.TotElems().
C4_RoundTrip ==
  (last.op = "Split" /\ last.exact) =>
     /\ last.ret = TRUE
     /\ last.output = sampler_[last.b].samples
     /\ Len(last.output) = nElems(sampler_[last.b])
     /\ last.total_elems = totElems_[last.b]

\* The encoding of two different retained values and a larger total, split.
C4_Witness ==
  /\ last.op = "Split" /\ last.exact
  /\ Len(last.output) = 2
  /\ last.output[1] # last.output[2]
  /\ last.total_elems = 3

\* C5: A.Merge(B.Encode()) succeeds and adds exactly B.TotElems() to
\* A.TotElems(); the values folded in are not counted again.
C5_MergeTotal ==
  [][(last'.op = "Merge" /\ last'.exact) =>
       /\ last'.ret = TRUE
       /\ totElems_'[last'.a] = totElems_[last'.a] + totElems_[last'.b]]_vars

\* A merge of a non-empty encoding into a full adapter that had counted.
C5_Witness ==
  /\ last.op = "Merge" /\ last.exact /\ last.ret
  /\ last.a # last.b
  /\ nElems(sampler_[last.a]) = maxElems(sampler_[last.a])
  /\ nElems(sampler_[last.b]) > 0
  /\ totElems_[last.a] = 3
  /\ totElems_[last.b] = 1

\* C6: merging B.Encode() into a new or just cleared adapter A gives A the
\* retained values B has, as many of them, and B's TotElems().
C6_Reconstruct ==
  [][(/\ last'.op = "Merge" /\ last'.exact
      /\ totElems_[last'.a] = 0
      /\ nElems(sampler_[last'.a]) = 0) =>
       /\ SameBag(sampler_'[last'.a].samples, sampler_[last'.b].samples)
       /\ nElems(sampler_'[last'.a]) = nElems(sampler_[last'.b])
       /\ totElems_'[last'.a] = totElems_[last'.b]]_vars

\* An adapter rebuilt from another that retains two different values.
C6_Witness ==
  /\ last.op = "Merge" /\ last.exact /\ last.ret
  /\ last.a # last.b
  /\ hist[last.a] = "merged"
  /\ totElems_[last.a] = totElems_[last.b]
  /\ nElems(sampler_[last.b]) = 2
  /\ sampler_[last.b].samples[1] # sampler_[last.b].samples[2]
  /\ SameBag(sampler_[last.a].samples, sampler_[last.b].samples)

\* C7: Merge and SplitEncodedStr return true exactly when the bytes are a
\* valid encoding for the capacity; on malformed bytes they return false
\* and the process does not abort.
C7_Malformed ==
  last.op \in {"Merge", "Split"} => (last.ret = last.valid /\ ~crashed)

\* A Merge of damaged bytes that returned false.
C7_Witness ==
  /\ last.op = "Merge" /\ ~last.exact
  /\ ~last.valid /\ last.ret = FALSE
  /\ ~crashed
  /\ totElems_[last.a] > 0

\* C8: right after Clear(), nElems() = 0, TotElems() = 0, IsValid() holds
\* and maxElems() is what it was; a second Clear() changes nothing more.
C8_Clear ==
  [][last'.op = "Clear" =>
       LET a == last'.a
           after == [sampler_ |-> sampler_'[a], totElems_ |-> totElems_'[a]]
       IN /\ nElems(after.sampler_) = 0
          /\ after.totElems_ = 0
          /\ IsValid(after.sampler_, after.totElems_)
          /\ maxElems(after.sampler_) = maxElems(sampler_[a])
          /\ ClearAd(after) = after]_vars

\* A Clear of an adapter that had retained and counted something.
C8_Witness ==
  /\ last.op = "Clear" /\ last.dirty
  /\ totElems_[last.a] = 0
  /\ nElems(sampler_[last.a]) = 0

\* C9: reset(new_real) on the proxy the adapters share leaves every
\* adapter's reference to the proxy as it was, destroys the generator held
\* before and makes the proxy hold new_real; every draw, by any adapter or
\* on the proxy itself, goes to the generator the proxy holds then.
C9_Reseed ==
  [][/\ (last'.op = "reset" /\ last'.real # last'.old) =>
          /\ random' = random
          /\ real_[last'.p] = last'.old
          /\ real_'[last'.p] = last'.real
          /\ deleted'[last'.old] >= 1
          /\ deleted[last'.real] = 0 /\ deleted'[last'.real] = 0
     /\ last'.op \in AddOps =>
          /\ last'.drawn = {real_'[random'[last'.a]]}
          /\ random' = random /\ real_' = real_
     /\ last'.op = "Rand" => last'.drawn = {real_'[last'.p]}]_vars

\* After a reset of the shared proxy, an add by the second adapter drew
\* from the new generator and the old one is destroyed.
C9_Witness ==
  /\ last.op = "AddElem" /\ last.a = 2
  /\ random[1] = random[2]
  /\ real_[random[2]] = 2
  /\ last.drawn = {2}
  /\ deleted[1] = 1 /\ deleted[2] = 0
  /\ totElems_[1] > 0

\* C10: Clone() returns NULL exactly when cloning the held generator
\* fails; otherwise it returns a new proxy holding the copy, a generator of
\* its own, and leaves the original's generator as it was; draws and resets
\* on one proxy then leave the other's generator as it was.
C10_Clone ==
  [][/\ last'.op = "Clone" =>
          /\ last'.ret = NULL <=> last'.real_copy = NULL
          /\ real_'[last'.p] = real_[last'.p]
          /\ deleted' = deleted
          /\ last'.ret # NULL =>
               /\ last'.ret \notin proxies /\ last'.ret \in proxies'
               /\ real_'[last'.ret] = last'.real_copy
               /\ \A q \in proxies : real_'[q] # last'.real_copy
     /\ last'.op \in AddOps \cup {"Rand"} => real_' = real_ /\ deleted' = deleted
     /\ last'.op = "reset" =>
          \A q \in proxies \ {last'.p} :
            real_'[q] = real_[q] /\ deleted'[real_[q]] = deleted[real_[q]]]_vars

\* The clone was reset and drawn from; the original still holds its live
\* first generator.
C10_Witness ==
  /\ proxies = {1, 2}
  /\ last.op = "Rand" /\ last.p = 2
  /\ real_[1] = 1 /\ deleted[1] = 0
  /\ real_[2] = 3 /\ deleted[2] = 1

Min(x, y) == IF x <= y THEN x ELSE y

\* C11: with AddElem the only add, an adapter of capacity C that has had n
\* adds since construction or its last Clear, and no Merge, has
\* nElems() = min(n, C) and TotElems() = n.
C11_UnweightedAdds ==
  \A a \in Adapters :
    hist[a] = "adds" =>
      /\ nElems(sampler_[a]) = Min(nAdds[a], maxElems(sampler_[a]))
      /\ totElems_[a] = nAdds[a]

\* Capacity 2 and three AddElem: two values retained, three counted.
C11_Witness ==
  /\ last.op = "AddElem"
  /\ hist[last.a] = "adds"
  /\ maxElems(sampler_[last.a]) = 2
  /\ nAdds[last.a] = 3
  /\ nElems(sampler_[last.a]) = 2
  /\ totElems_[last.a] = 3
  /\ IsValid(sampler_[last.a], totElems_[last.a])

\* The step left adapter a with the retained values, tags and total of res
\* and returned res.ret.
StepGave(a, res) ==
  /\ sampler_'[a] = res.sampler_
  /\ totElems_'[a] = res.totElems_
  /\ last'.ret = res.ret

\* C12: AddElem(value) does what AddWeightedElem(value, w) does for a weight
\* w that ToFloat converts to 1: from the same adapter state and the same
\* draw, each leaves the retained values, tags and TotElems() and returns
\* the memory delta that the other would.
C12_Equivalent ==
  [][/\ last'.op = "AddElem" =>
          \E w \in Weights :
            /\ ToFloat(w) = 1
            /\ StepGave(last'.a,
                        AddWeightedElemInternal(Ad(last'.a), last'.value,
                                                ToFloat(w), last'.r))
     /\ \A w \in Weights :
          (/\ last'.op = "AddWeightedElem"
           /\ ToFloat(w) = 1
           /\ last'.weight = ToFloat(w)) =>
            StepGave(last'.a,
                     AddWeightedElemInternal(Ad(last'.a), last'.value,
                                             1, last'.r))]_vars

\* An AddWeightedElem of weight 1 that evicted the two-byte value for the
\* empty one, as the AddElem from that state and draw does.
C12_Witness ==
  /\ last.op = "AddWeightedElem"
  /\ last.weight = 1
  /\ last.value = <<>>
  /\ last.index > 0
  /\ last.ret = -2

\* C13: an add of zero or negative weight is counted but not admitted:
\* TotElems() goes up by 1, the retained values and their tags stay as they
\* were, nothing is drawn and the add returns 0.
C13_NonPositive ==
  [][(last'.op \in AddOps /\ last'.weight <= 0) =>
       /\ totElems_'[last'.a] = totElems_[last'.a] + 1
       /\ sampler_'[last'.a] = sampler_[last'.a]
       /\ nElems(sampler_'[last'.a]) = nElems(sampler_[last'.a])
       /\ last'.index = 0
       /\ last'.ret = 0
       /\ last'.drawn = {}]_vars

\* After an add of negative weight and a non-empty value, the adapter has
\* room left and yet has counted more than it retains.
C13_Witness ==
  /\ last.op = "AddWeightedElem"
  /\ last.weight < 0
  /\ last.value # <<>>
  /\ nElems(sampler_[last.a]) = 1
  /\ nElems(sampler_[last.a]) < maxElems(sampler_[last.a])
  /\ nElems(sampler_[last.a]) < totElems_[last.a]
  /\ IsValid(sampler_[last.a], totElems_[last.a])

\* C14: as long as no reset has overlapped an add through the same proxy,
\* no add draws from a generator that has been destroyed (nor aborts doing
\* so).
C14_Serialized ==
  ~raced =>
    /\ last.op = "AddElem" => \A g \in last.drawn : deleted[g] = 0
    /\ ~(last.op = "crash" /\ last.in = "AddElem")

ReadOps == {"nElems", "maxElems", "TotElems", "Element", "ExtraMemory",
            "IsValid", "Encode", "Split"}

\* Adapter a as the step leaves it.
AdAfter(a) == [sampler_ |-> sampler_'[a], totElems_ |-> totElems_'[a]]

\* C15: nElems(), maxElems(), TotElems(), Element(i), ExtraMemory(),
\* IsValid(), Encode() and SplitEncodedStr() leave every adapter's retained
\* values, tags, TotElems() and capacity and the generators as they were and
\* draw nothing; an add or an Encode (what a Merge is given) after the call
\* gives what it would have given before it.
C15_ReadsFrame ==
  [][last'.op \in ReadOps =>
       /\ sampler_' = sampler_
       /\ totElems_' = totElems_
       /\ random' = random /\ real_' = real_
       /\ allocated' = allocated /\ deleted' = deleted
       /\ crashed' = crashed
       /\ last'.drawn = {}
       /\ \A a \in Adapters :
            /\ Encode(sampler_'[a], totElems_'[a]) = Encode(sampler_[a], totElems_[a])
            /\ \A v \in Values, r \in RandVals :
                 AddWeightedElemInternal(AdAfter(a), v, 1, r) =
                 AddWeightedElemInternal(Ad(a), v, 1, r)]_vars

\* TotElems() read on an adapter that has merged and is full: three counted,
\* two retained, as before the call.
C15_Witness ==
  /\ last.op = "TotElems"
  /\ last.ret = 3
  /\ hist[last.a] = "merged"
  /\ totElems_[last.a] = 3
  /\ nElems(sampler_[last.a]) = 2

\* C16: for an adapter that has only had adds since construction or its
\* last Clear, the memory deltas those adds returned sum to the bytes of the
\* values it retains.
C16_DeltasSum ==
  \A a \in Adapters :
    hist[a] = "adds" => deltaSum[a] = ExtraMemory(sampler_[a])

\* Three adds to an adapter of capacity 2, the last one evicting a two-byte
\* value for the empty one: the deltas 2, 2, -2 sum to the two bytes retained.
C16_Witness ==
  /\ last.op \in AddOps
  /\ last.ret = -2
  /\ hist[last.a] = "adds"
  /\ nAdds[last.a] = 3
  /\ nElems(sampler_[last.a]) = 2
  /\ deltaSum[last.a] = 2
  /\ ExtraMemory(sampler_[last.a]) = 2

\* C17: after any resets, each given a live generator (the held one
\* included), every proxy holds a generator that is not destroyed, every
\* generator no proxy holds any more has been destroyed exactly once, and
\* none has been destroyed twice.
C17_SingleOwnership ==
  /\ \A p \in proxies : Live(real_[p])
  /\ \A g \in allocated :
       (\A p \in proxies : real_[p] # g) => deleted[g] = 1
  /\ \A g \in Gens : deleted[g] <= 1
====
